---- MODULE Spec2Model ----
(***************************************************************************)
(* A model of the script VM sketched in src/lib.rs: the handlers op_dup,   *)
(* op_hash160, op_equal, op_verify and op_checksig, the registry           *)
(* ScriptVM.words, the operand stack ScriptVM.stack, and the interpreter   *)
(* loop of verify_p2pkh_script.  One step of the model is one pass of the  *)
(* loop body for a PushBytes or Error instruction, one registry lookup     *)
(* that misses, or one handler call of an opcode's chain together with     *)
(* the engine's handling of its result.                                    *)
(***************************************************************************)
EXTENDS Integers, Sequences, FiniteSets, TLC

\* ------------------------------------------------------------- bounds

\* Longest byte string pushed by a script.
MaxDataLen == 1

\* Length of a digest (hash160 gives 20 bytes; the model keeps it short).
DigestLen == 1

\* Longest free-form script.
MaxScriptLen == 3

\* ------------------------------------------------------------- values

\* Byte values of the model: the byte of RET_FALSE, the byte of RET_TRUE,
\* and one byte that is neither.
Bytes == {0, 1, 2}

SeqsUpTo(S, n) == UNION {[1..k -> S] : k \in 0..n}

\* The byte strings a PushBytes instruction can carry.
Data == SeqsUpTo(Bytes, MaxDataLen)

RET_NONE == <<>>

RET_TRUE == <<1>>

RET_FALSE == <<0>>

\* Opcode bytes.
OP_DUP == 118

OP_HASH160 == 169

OP_EQUALVERIFY == 136

OP_CHECKSIG == 172

OP_EQUAL == 135

OP_VERIFY == 105

\* An opcode byte that no registry binds.
OP_NOP == 97

Opcodes == {OP_DUP, OP_HASH160, OP_EQUALVERIFY, OP_CHECKSIG, OP_EQUAL, OP_VERIFY, OP_NOP}

\* ------------------------------------------------------- instructions

PushBytes(d) == [type |-> "PushBytes", data |-> d, op |-> 0]

Op(o) == [type |-> "Op", data |-> <<>>, op |-> o]

Error == [type |-> "Error", data |-> <<>>, op |-> 0]

Instructions == {PushBytes(d) : d \in Data} \cup {Op(o) : o \in Opcodes} \cup {Error}

\* ------------------------------------------------------------ helpers

Last(st) == st[Len(st)]

Front(st) == SubSeq(st, 1, Len(st) - 1)

RECURSIVE SumBytes(_)
SumBytes(x) == IF x = <<>> THEN 0 ELSE x[1] + SumBytes(Tail(x))

\* The external digest: a fixed-length byte string computed from the
\* input's bytes and length; never the input itself.
hash160(x) == [i \in 1..DigestLen |-> (SumBytes(x) + Len(x) + i) % 3]

\* Content equality of two byte strings, byte by byte.
RECURSIVE ByteEq(_, _)
ByteEq(a, b) ==
    IF a = <<>> \/ b = <<>> THEN a = <<>> /\ b = <<>>
    ELSE a[1] = b[1] /\ ByteEq(Tail(a), Tail(b))

\* ----------------------------------------------------------- handlers
\* A handler takes the stack and gives its StackResult together with the
\* stack as the handler left it:
\*   tag = "Ok"    : Ok(val)
\*   tag = "Err"   : Err(kind)
\*   tag = "Panic" : the handler itself panicked and returned nothing.

Ok(v, st) == [tag |-> "Ok", val |-> v, kind |-> "None", stack |-> st]

Err(k, st) == [tag |-> "Err", val |-> <<>>, kind |-> k, stack |-> st]

Panic(st) == [tag |-> "Panic", val |-> <<>>, kind |-> "Panic", stack |-> st]

op_dup(st) ==
    IF st = <<>> THEN Panic(st)
    ELSE Ok(Last(st), st)

\* op_hash160 reading the top with last() instead of pop().
op_hash160_peek(st) ==
    IF st = <<>> THEN Err("EmptyStack", st)
    ELSE Ok(hash160(Last(st)), st)

\* op_hash160 unwrapping the popped value instead of matching on it.
op_hash160_unwrap(st) ==
    IF st = <<>> THEN Panic(st)
    ELSE Ok(hash160(Last(st)), Front(st))

op_hash160(st) ==
    IF st = <<>> THEN Err("EmptyStack", st)
    ELSE Ok(hash160(Last(st)), Front(st))

\* op_equal checking the depth of the stack before it pops.
op_equal_checkfirst(st) ==
    IF Len(st) < 2 THEN Err("EmptyStack", st)
    ELSE LET a == st[Len(st)]
             b == st[Len(st) - 1]
             rest == SubSeq(st, 1, Len(st) - 2)
         IN IF ByteEq(a, b) THEN Ok(RET_TRUE, rest) ELSE Ok(RET_FALSE, rest)

\* op_equal comparing the lengths only.
op_equal_len(st) ==
    IF Len(st) < 2 THEN Err("EmptyStack", <<>>)
    ELSE LET a == st[Len(st)]
             b == st[Len(st) - 1]
             rest == SubSeq(st, 1, Len(st) - 2)
         IN IF Len(a) = Len(b) THEN Ok(RET_TRUE, rest) ELSE Ok(RET_FALSE, rest)

\* op_equal comparing the two values over their common length only.
op_equal_prefix(st) ==
    IF Len(st) < 2 THEN Err("EmptyStack", <<>>)
    ELSE LET a == st[Len(st)]
             b == st[Len(st) - 1]
             rest == SubSeq(st, 1, Len(st) - 2)
         IN IF \A i \in (DOMAIN a) \cap (DOMAIN b) : a[i] = b[i]
            THEN Ok(RET_TRUE, rest) ELSE Ok(RET_FALSE, rest)

op_equal(st) ==
    IF Len(st) < 2 THEN Err("EmptyStack", <<>>)
    ELSE LET a == st[Len(st)]
             b == st[Len(st) - 1]
             rest == SubSeq(st, 1, Len(st) - 2)
         IN IF ByteEq(a, b) THEN Ok(RET_TRUE, rest) ELSE Ok(RET_FALSE, rest)

\* op_verify taking any non-zero value for true.
op_verify_truthy(st) ==
    IF st = <<>> THEN Err("EmptyStack", st)
    ELSE IF \E i \in DOMAIN Last(st) : Last(st)[i] # 0 THEN Ok(RET_NONE, Front(st))
         ELSE Err("VerifyFailed", Front(st))

op_verify(st) ==
    IF st = <<>> THEN Err("EmptyStack", st)
    ELSE IF Last(st) = RET_TRUE THEN Ok(RET_NONE, Front(st))
         ELSE Err("VerifyFailed", Front(st))

\* op_checksig popping the public key and the signature.
op_checksig_pops(st) ==
    IF Len(st) < 2 THEN Err("EmptyStack", <<>>)
    ELSE Ok(RET_TRUE, SubSeq(st, 1, Len(st) - 2))

op_checksig(st) == Ok(RET_TRUE, st)

Handlers == {"op_dup", "op_hash160", "op_equal", "op_verify", "op_checksig"}

\* A call through a function pointer of a chain.
Call(f, st) ==
    CASE f = "op_dup" -> op_dup(st)
      [] f = "op_hash160" -> op_hash160(st)
      [] f = "op_equal" -> op_equal(st)
      [] f = "op_verify" -> op_verify(st)
      [] f = "op_checksig" -> op_checksig(st)

\* ----------------------------------------------------------- registry

\* The registry built by verify_p2pkh_script.
CodeWords ==
    (OP_DUP :> <<"op_dup">>) @@ (OP_HASH160 :> <<"op_hash160">>)
    @@ (OP_EQUALVERIFY :> <<"op_equal", "op_verify">>)
    @@ (OP_CHECKSIG :> <<"op_checksig">>)

\* The registry of the end-to-end scenario: one primitive per opcode.
PrimitiveWords ==
    (OP_DUP :> <<"op_dup">>) @@ (OP_HASH160 :> <<"op_hash160">>)
    @@ (OP_EQUAL :> <<"op_equal">>) @@ (OP_VERIFY :> <<"op_verify">>)
    @@ (OP_CHECKSIG :> <<"op_checksig">>)

Registries == {CodeWords, PrimitiveWords}

\* ------------------------------------------------------------ scripts

\* PUSH <signature> PUSH <public_key> DUP HASH_160 PUSH <public_key_hash>
\* EQUALVERIFY CHECKSIG
P2PKH(sig, pk, pkh) ==
    <<PushBytes(sig), PushBytes(pk), Op(OP_DUP), Op(OP_HASH160),
      PushBytes(pkh), Op(OP_EQUALVERIFY), Op(OP_CHECKSIG)>>

\* The same with EQUAL and VERIFY as two opcodes.
P2PKHSplit(sig, pk, pkh) ==
    <<PushBytes(sig), PushBytes(pk), Op(OP_DUP), Op(OP_HASH160),
      PushBytes(pkh), Op(OP_EQUAL), Op(OP_VERIFY), Op(OP_CHECKSIG)>>

\* The values a script can push as a public key hash: any data, the
\* digests among them.
Digests == Data \cup {hash160(d) : d \in Data}

P2PKHScripts ==
    {P2PKH(sig, pk, pkh) : sig \in Data, pk \in Data, pkh \in Digests}
    \cup {P2PKHSplit(sig, pk, pkh) : sig \in Data, pk \in Data, pkh \in Digests}

\* Three pushes followed by the composite opcode, or by EQUAL and VERIFY.
EqualVerifyScripts ==
    {<<PushBytes(c), PushBytes(a), PushBytes(b), Op(OP_EQUALVERIFY)>> :
        c \in Data, a \in Data, b \in Data}
    \cup {<<PushBytes(c), PushBytes(a), PushBytes(b), Op(OP_EQUAL), Op(OP_VERIFY)>> :
        c \in Data, a \in Data, b \in Data}

Scripts == SeqsUpTo(Instructions, MaxScriptLen) \cup P2PKHScripts \cup EqualVerifyScripts

\* -------------------------------------------------------------- state

VARIABLES
    script,  \* s: the decoded instruction sequence
    words,   \* vm.words
    stack,   \* vm.stack
    pc,      \* position of the iterator s.iter(true): next instruction
    hc,      \* handlers of the current chain already run
    state,   \* "Running", "Success" (loop ended) or "Failure" (panic)
    kind,    \* why the run failed
    calls    \* the handler calls made so far, as <<pc, handler>>

vars == <<script, words, stack, pc, hc, state, kind, calls>>

Init ==
    /\ script \in Scripts
    /\ words \in Registries
    /\ stack = <<>>
    /\ pc = 1
    /\ hc = 0
    /\ state = "Running"
    /\ kind = "None"
    /\ calls = <<>>

AtInsn == state = "Running" /\ pc <= Len(script)

\* The engine pushing data only when it is non-empty, as it does results.
StepPushBytes_skipEmpty ==
    /\ AtInsn
    /\ script[pc].type = "PushBytes"
    /\ stack' = IF Len(script[pc].data) > 0 THEN Append(stack, script[pc].data) ELSE stack
    /\ pc' = pc + 1
    /\ UNCHANGED <<script, words, hc, state, kind, calls>>

\* Instruction::PushBytes(data) => vm.stack.push(Cow::Borrowed(data))
StepPushBytes ==
    /\ AtInsn
    /\ script[pc].type = "PushBytes"
    /\ stack' = Append(stack, script[pc].data)
    /\ pc' = pc + 1
    /\ UNCHANGED <<script, words, hc, state, kind, calls>>

\* The engine pushing every result, the empty one included.
AfterCall_pushAlways(r, n) ==
    IF r.tag = "Ok"
    THEN /\ stack' = Append(r.stack, r.val)
         /\ IF hc + 1 = n
            THEN pc' = pc + 1 /\ hc' = 0
            ELSE pc' = pc /\ hc' = hc + 1
         /\ UNCHANGED <<state, kind>>
    ELSE /\ stack' = r.stack
         /\ state' = "Failure"
         /\ kind' = r.kind
         /\ UNCHANGED <<pc, hc>>

\* The engine pushing only the result of the last handler of a chain.
AfterCall_pushLast(r, n) ==
    IF r.tag = "Ok"
    THEN /\ stack' = IF Len(r.val) > 0 /\ hc + 1 = n THEN Append(r.stack, r.val) ELSE r.stack
         /\ IF hc + 1 = n
            THEN pc' = pc + 1 /\ hc' = 0
            ELSE pc' = pc /\ hc' = hc + 1
         /\ UNCHANGED <<state, kind>>
    ELSE /\ stack' = r.stack
         /\ state' = "Failure"
         /\ kind' = r.kind
         /\ UNCHANGED <<pc, hc>>

\* The engine going on to the next handler whatever the result.
AfterCall_continue(r, n) ==
    /\ stack' = IF Len(r.val) > 0 THEN Append(r.stack, r.val) ELSE r.stack
    /\ IF hc + 1 = n
       THEN pc' = pc + 1 /\ hc' = 0
       ELSE pc' = pc /\ hc' = hc + 1
    /\ UNCHANGED <<state, kind>>

\* The engine's handling of one handler's result r, the handler being
\* number hc + 1 of a chain of n handlers.
AfterCall(r, n) ==
    IF r.tag = "Ok"
    THEN /\ stack' = IF Len(r.val) > 0 THEN Append(r.stack, r.val) ELSE r.stack
         /\ IF hc + 1 = n
            THEN pc' = pc + 1 /\ hc' = 0
            ELSE pc' = pc /\ hc' = hc + 1
         /\ UNCHANGED <<state, kind>>
    ELSE /\ stack' = r.stack
         /\ state' = "Failure"
         /\ kind' = r.kind
         /\ UNCHANGED <<pc, hc>>

\* The engine taking the chain out of the registry when it has run it.
StepHandler_remove ==
    /\ AtInsn
    /\ script[pc].type = "Op"
    /\ script[pc].op \in DOMAIN words
    /\ LET chain == words[script[pc].op]
           f == chain[hc + 1]
       IN /\ AfterCall(Call(f, stack), Len(chain))
          /\ calls' = Append(calls, <<pc, f>>)
          /\ words' = IF hc + 1 = Len(chain)
                      THEN [o \in (DOMAIN words) \ {script[pc].op} |-> words[o]]
                      ELSE words
    /\ UNCHANGED script

\* Instruction::Op(op), registry hit: the next handler of the chain.
StepHandler ==
    /\ AtInsn
    /\ script[pc].type = "Op"
    /\ script[pc].op \in DOMAIN words
    /\ LET chain == words[script[pc].op]
           f == chain[hc + 1]
       IN /\ AfterCall(Call(f, stack), Len(chain))
          /\ calls' = Append(calls, <<pc, f>>)
    /\ UNCHANGED <<script, words>>

\* The engine skipping an opcode it has no entry for.
StepUnsupported_skip ==
    /\ AtInsn
    /\ script[pc].type = "Op"
    /\ script[pc].op \notin DOMAIN words
    /\ pc' = pc + 1
    /\ UNCHANGED <<script, words, stack, hc, state, kind, calls>>

\* Instruction::Op(op), registry miss: panic!("Unsupported opcode: ...")
StepUnsupported ==
    /\ AtInsn
    /\ script[pc].type = "Op"
    /\ script[pc].op \notin DOMAIN words
    /\ state' = "Failure"
    /\ kind' = "UnsupportedOpcode"
    /\ UNCHANGED <<script, words, stack, pc, hc, calls>>

\* The iterator not moving past a malformed instruction.
StepError_stay ==
    /\ AtInsn
    /\ script[pc].type = "Error"
    /\ pc' = pc
    /\ UNCHANGED <<script, words, stack, hc, state, kind, calls>>

\* The engine halting on a malformed instruction.
StepError_halt ==
    /\ AtInsn
    /\ script[pc].type = "Error"
    /\ state' = "Failure"
    /\ kind' = "Malformed"
    /\ UNCHANGED <<script, words, stack, pc, hc, calls>>

\* Instruction::Error(_) => println!("err")
StepError ==
    /\ AtInsn
    /\ script[pc].type = "Error"
    /\ pc' = pc + 1
    /\ UNCHANGED <<script, words, stack, hc, state, kind, calls>>

\* The run ending with a check that the top of the stack is true.
Finish_checksTop ==
    /\ state = "Running"
    /\ pc > Len(script)
    /\ IF stack # <<>> /\ Last(stack) = RET_TRUE
       THEN state' = "Success" /\ kind' = kind
       ELSE state' = "Failure" /\ kind' = "VerifyFailed"
    /\ UNCHANGED <<script, words, stack, pc, hc, calls>>

\* The iterator is exhausted: the loop and the run end.
Finish ==
    /\ state = "Running"
    /\ pc > Len(script)
    /\ state' = "Success"
    /\ UNCHANGED <<script, words, stack, pc, hc, kind, calls>>

Next ==
    \/ StepPushBytes
    \/ StepHandler
    \/ StepUnsupported
    \/ StepError
    \/ Finish

Spec == Init /\ [][Next]_vars

\* The loop is synchronous code: while it can take a step, it does.
FairSpec == Spec /\ WF_vars(Next)

\* ------------------------------------------------------ claim helpers

\* The handler the engine is about to call, "none" when the next step is
\* not a handler call.
NextHandler ==
    IF AtInsn /\ script[pc].type = "Op" /\ script[pc].op \in DOMAIN words
    THEN words[script[pc].op][hc + 1]
    ELSE "none"

\* The handler of the most recent call, "none" before the first call.
LastHandler == IF calls = <<>> THEN "none" ELSE calls[Len(calls)][2]

Ran(f) == \E i \in DOMAIN calls : calls[i][2] = f

\* The three values a P2PKH script pushes.
Sig == script[1].data

Pubkey == script[2].data

PubkeyHash == script[5].data

\* The run is the P2PKH scenario: the script of the code under the code's
\* registry, or the eight-instruction script under the registry that
\* binds EQUAL and VERIFY separately.
P2PKHRun ==
    \/ /\ Len(script) = 7
       /\ script = P2PKH(Sig, Pubkey, PubkeyHash)
       /\ words = CodeWords
    \/ /\ Len(script) = 8
       /\ script = P2PKHSplit(Sig, Pubkey, PubkeyHash)
       /\ words = PrimitiveWords

\* What the P2PKH scenario leaves below the top of the stack: sig and pk,
\* neither of which any handler pops for good.  An empty pk is on the
\* stack once only while it is there, Duplicate's empty result not being
\* pushed, and Hash then consumes it.
Unpopped(sig, pk) == IF pk = <<>> THEN <<sig>> ELSE <<sig, pk>>

\* Once the run has failed, nothing changes any more.
FailureIsFinal == state = "Failure" => UNCHANGED vars

\* ------------------------------------------------------------- claims

\* C1 (as stated): the P2PKH scenario with hash(pubkey) = pubkey_hash ends
\* in Success with the final stack exactly [canonical true].
C1_AsStated ==
    (P2PKHRun /\ PubkeyHash = hash160(Pubkey) /\ state # "Running")
        => (state = "Success" /\ stack = <<RET_TRUE>>)

\* C1 (amended): the P2PKH scenario with hash(pubkey) = pubkey_hash never
\* fails, and when it has ended the state is Success and the final stack
\* is canonical true on top of the pushed values the signature-check stub
\* did not pop: [sig, pubkey, canonical true], and [sig, canonical true]
\* when pubkey is the empty byte string.
C1_P2PKHSucceeds ==
    (P2PKHRun /\ PubkeyHash = hash160(Pubkey)) =>
        /\ state # "Failure"
        /\ state = "Success" => stack = Unpopped(Sig, Pubkey) \o <<RET_TRUE>>

C1_Witness ==
    /\ state = "Success"
    /\ script = P2PKH(<<2>>, <<1>>, hash160(<<1>>))
    /\ words = CodeWords
    /\ stack = <<<<2>>, <<1>>, RET_TRUE>>
    /\ LastHandler = "op_checksig"

\* C2: the P2PKH scenario with pubkey_hash # hash(pubkey) never succeeds
\* and never runs the signature-check stub; after Equal the top of the
\* stack is canonical false; the run fails with VerifyFailed, raised by
\* Verify right after Equal, with canonical false popped and nothing
\* else.
C2_MismatchFailsAtVerify ==
    (P2PKHRun /\ PubkeyHash # hash160(Pubkey)) =>
        /\ state # "Success"
        /\ ~Ran("op_checksig")
        /\ state = "Running" => NextHandler # "op_checksig" /\ pc <= Len(script)
        /\ (state = "Running" /\ LastHandler = "op_equal")
               => stack = Unpopped(Sig, Pubkey) \o <<RET_FALSE>>
        /\ state = "Failure" =>
               /\ kind = "VerifyFailed"
               /\ LastHandler = "op_verify"
               /\ calls[Len(calls) - 1][2] = "op_equal"
               /\ stack = Unpopped(Sig, Pubkey)

C2_Witness ==
    /\ state = "Failure"
    /\ kind = "VerifyFailed"
    /\ script = P2PKH(<<2>>, <<1>>, <<1>>)
    /\ words = CodeWords
    /\ <<1>> # hash160(<<1>>)
    /\ LastHandler = "op_verify"

\* C3: fail-fast.  A handler call that fails moves the run to Failure with
\* that handler's kind in the same step, without advancing in the chain or
\* in the script; in Failure the last call made is the failing one, at the
\* instruction and chain position where the run stopped; and once in
\* Failure no variable (state, stack, calls made) changes again.
C3_FailFast ==
    /\ [](state = "Failure" /\ kind # "UnsupportedOpcode" =>
            /\ calls # <<>>
            /\ calls[Len(calls)] = <<pc, words[script[pc].op][hc + 1]>>
            /\ \A i \in DOMAIN calls : calls[i][1] <= pc)
    /\ [][/\ FailureIsFinal
          /\ (NextHandler # "none" /\ Call(NextHandler, stack).tag # "Ok") =>
                /\ state' = "Failure"
                /\ kind' = Call(NextHandler, stack).kind
                /\ kind' # "None"
                /\ pc' = pc /\ hc' = hc
                /\ calls' = Append(calls, <<pc, NextHandler>>)]_vars

\* A failure in the first handler of a two-handler chain, with
\* instructions left in the script.
C3_Witness ==
    /\ state = "Failure"
    /\ kind = "EmptyStack"
    /\ script[pc].op = OP_EQUALVERIFY
    /\ words = CodeWords
    /\ hc = 0
    /\ pc < Len(script)

\* C4: an Op whose opcode has no registry entry halts the run with
\* UnsupportedOpcode in that step, calls no handler, does not advance, and
\* leaves the stack as it was; nothing changes afterwards.
C4_UnsupportedOpcode ==
    /\ [](kind = "UnsupportedOpcode" =>
            /\ state = "Failure"
            /\ script[pc].type = "Op" /\ script[pc].op \notin DOMAIN words
            /\ \A i \in DOMAIN calls : calls[i][1] < pc)
    /\ [][/\ FailureIsFinal
          /\ (AtInsn /\ script[pc].type = "Op" /\ script[pc].op \notin DOMAIN words) =>
                /\ state' = "Failure"
                /\ kind' = "UnsupportedOpcode"
                /\ kind' \notin {"EmptyStack", "VerifyFailed"}
                /\ stack' = stack
                /\ calls' = calls
                /\ pc' = pc]_vars

C4_Witness ==
    /\ state = "Failure"
    /\ kind = "UnsupportedOpcode"
    /\ script[pc] = Op(OP_NOP)
    /\ stack = <<<<2>>>>
    /\ calls = <<>>
    /\ pc < Len(script)

\* C5: Duplicate on a stack whose top is x leaves the run Running and the
\* stack one longer, its two top elements both x and the elements below
\* unchanged.
C5_Duplicate ==
    [][(NextHandler = "op_dup" /\ stack # <<>>) =>
          /\ state' = "Running"
          /\ Len(stack') = Len(stack) + 1
          /\ stack'[Len(stack')] = stack[Len(stack)]
          /\ stack'[Len(stack') - 1] = stack[Len(stack)]
          /\ \A i \in 1..Len(stack) : stack'[i] = stack[i]]_vars

\* C6: Duplicate on an empty stack fails with the kind EmptyStack, as a
\* returned error and not a panic, and the stack stays empty.
C6_DupEmptyStack ==
    (state = "Failure" /\ LastHandler = "op_dup")
        => (kind = "EmptyStack" /\ stack = <<>>)

\* C7: Hash on a stack whose top is x leaves the run Running, the stack
\* length unchanged, the new top hash(x) and the elements below unchanged.
C7_Hash ==
    [][(NextHandler = "op_hash160" /\ stack # <<>>) =>
          /\ state' = "Running"
          /\ Len(stack') = Len(stack)
          /\ stack'[Len(stack')] = hash160(stack[Len(stack)])
          /\ \A i \in 1..(Len(stack) - 1) : stack'[i] = stack[i]]_vars

C7_Witness ==
    \E a \in Data, x \in Data :
        /\ script = <<PushBytes(a), PushBytes(x), Op(OP_HASH160)>>
        /\ a # <<>> /\ x # hash160(x) /\ a # hash160(x)
        /\ pc = 4
        /\ LastHandler = "op_hash160"
        /\ stack = <<a, hash160(x)>>

\* C8: the script [Op(HASH)] from the empty stack never succeeds, makes no
\* step but the failing call, and fails with EmptyStack with the stack
\* still empty.
C8_HashEmptyStack ==
    script = <<Op(OP_HASH160)>> =>
        /\ state # "Success"
        /\ stack = <<>>
        /\ state = "Running" => (pc = 1 /\ calls = <<>> /\ NextHandler = "op_hash160")
        /\ state = "Failure" => (kind = "EmptyStack" /\ calls = <<<<1, "op_hash160">>>>)

C8_Witness ==
    /\ script = <<Op(OP_HASH160)>>
    /\ state = "Failure"
    /\ kind = "EmptyStack"
    /\ stack = <<>>

\* C9: Equal on a stack ending in a, b (b on top) leaves the run Running
\* and replaces the two by canonical true when a and b hold the same
\* bytes and by canonical false otherwise, the elements below unchanged;
\* the value pushed is the one Equal gives for b, a.
C9_Equal ==
    [][(NextHandler = "op_equal" /\ Len(stack) >= 2) =>
          LET b == stack[Len(stack)]
              a == stack[Len(stack) - 1]
              below == SubSeq(stack, 1, Len(stack) - 2)
          IN /\ state' = "Running"
             /\ Len(stack') = Len(stack) - 1
             /\ stack'[Len(stack')] = (IF a = b THEN <<1>> ELSE <<0>>)
             /\ stack'[Len(stack')] = op_equal(below \o <<b, a>>).val
             /\ \A i \in 1..(Len(stack) - 2) : stack'[i] = stack[i]]_vars

\* Equal of two different byte strings, one a prefix of the other.
C9_Witness ==
    /\ script = <<PushBytes(<<>>), PushBytes(<<1>>), Op(OP_EQUAL)>>
    /\ words = PrimitiveWords
    /\ pc = 4
    /\ state = "Running"
    /\ LastHandler = "op_equal"
    /\ stack = <<RET_FALSE>>

C10_WitnessTrue ==
    /\ script = <<PushBytes(<<0>>), PushBytes(<<1>>), Op(OP_VERIFY)>>
    /\ words = PrimitiveWords
    /\ state = "Running"
    /\ pc = 4
    /\ stack = <<<<0>>>>

\* C11: when the script is exhausted while Running, the run ends in
\* Success with the stack as it is, whatever it holds; and a run that has
\* ended in Success has gone through the whole script with no failure.
C11_ExhaustedIsSuccess ==
    /\ [](state = "Success" => (pc = Len(script) + 1 /\ hc = 0 /\ kind = "None"))
    /\ [][(state = "Running" /\ pc > Len(script)) =>
            (state' = "Success" /\ stack' = stack /\ kind' = "None")]_vars

\* Success with canonical false on top of the final stack.
C11_Witness ==
    /\ state = "Success"
    /\ script = <<PushBytes(<<2>>), PushBytes(<<1>>), Op(OP_EQUAL)>>
    /\ words = PrimitiveWords
    /\ stack = <<RET_FALSE>>

\* Success with an empty final stack, after a handler has run.
C11_WitnessEmpty ==
    /\ state = "Success"
    /\ script = <<PushBytes(<<1>>), Op(OP_VERIFY)>>
    /\ words = PrimitiveWords
    /\ stack = <<>>

\* C12: a malformed instruction leaves the run Running and the stack (and
\* everything but the position) unchanged, and moves on to the next
\* instruction; the engine never stalls while instructions are left.
C12_MalformedIgnored ==
    /\ [](AtInsn => ENABLED Next)
    /\ [][(AtInsn /\ script[pc].type = "Error") =>
            /\ state' = "Running"
            /\ kind' = "None"
            /\ stack' = stack
            /\ calls' = calls
            /\ pc' = pc + 1]_vars

\* An instruction processed after a malformed one.
C12_Witness ==
    /\ script = <<PushBytes(<<2>>), Error, Op(OP_DUP)>>
    /\ state = "Success"
    /\ calls = <<<<3, "op_dup">>>>
    /\ stack = <<<<2>>, <<2>>>>

\* C13: Equal on a stack of fewer than two elements fails with EmptyStack
\* and pushes nothing; the one element there may have been is popped, so
\* the stack is empty at the failure.
C13_EqualShortStack ==
    [][(NextHandler = "op_equal" /\ Len(stack) < 2) =>
          /\ state' = "Failure"
          /\ kind' = "EmptyStack"
          /\ stack' = <<>>]_vars

\* Equal on a stack of exactly one element.
C13_Witness ==
    /\ script = <<PushBytes(<<2>>), Op(OP_EQUAL), Op(OP_CHECKSIG)>>
    /\ words = PrimitiveWords
    /\ state = "Failure"
    /\ kind = "EmptyStack"
    /\ calls = <<<<2, "op_equal">>>>
    /\ stack = <<>>

\* The empty values of a stack.
Empties(st) == {i \in DOMAIN st : st[i] = <<>>}

\* The pushes of empty data made so far.
EmptyPushes == {i \in 1..(pc - 1) : script[i] = PushBytes(<<>>)}

\* C14: after a successful handler call the stack is the handler's stack
\* with the result appended exactly when the result is non-empty; and the
\* stack never holds more empty values than the script has pushed.
C14_EmptyResultNotPushed ==
    /\ [](Cardinality(Empties(stack)) <= Cardinality(EmptyPushes))
    /\ [][(NextHandler # "none" /\ Call(NextHandler, stack).tag = "Ok") =>
            LET r == Call(NextHandler, stack)
            IN /\ state' = "Running"
               /\ r.val # <<>> => stack' = r.stack \o <<r.val>>
               /\ r.val = <<>> => stack' = r.stack]_vars

\* Verify has succeeded and its empty result is not on the stack.
C14_Witness ==
    /\ script = <<PushBytes(<<2>>), PushBytes(<<1>>), Op(OP_VERIFY)>>
    /\ words = PrimitiveWords
    /\ state = "Running"
    /\ pc = 4
    /\ LastHandler = "op_verify"
    /\ stack = <<<<2>>>>

\* C15: the signature-check stub succeeds on every stack, the empty one
\* included, and pops nothing: the run stays Running and the stack is the
\* previous one with canonical true appended.
C15_ChecksigStub ==
    [][NextHandler = "op_checksig" =>
          /\ state' = "Running"
          /\ kind' = "None"
          /\ stack' = stack \o <<<<1>>>>]_vars

\* The stub run on the empty stack and again on a stack of one.
C15_Witness ==
    /\ script = <<Op(OP_CHECKSIG), Op(OP_CHECKSIG)>>
    /\ pc = 3
    /\ state = "Running"
    /\ calls = <<<<1, "op_checksig">>, <<2, "op_checksig">>>>
    /\ stack = <<RET_TRUE, RET_TRUE>>

\* C16: PushBytes(bytes) appends exactly bytes to the stack, the empty
\* byte string included, leaves the elements below unchanged, calls no
\* handler and leaves the run Running at the next instruction.
C16_DataPush ==
    [][(AtInsn /\ script[pc].type = "PushBytes") =>
          /\ state' = "Running"
          /\ kind' = "None"
          /\ Len(stack') = Len(stack) + 1
          /\ stack'[Len(stack')] = script[pc].data
          /\ \A i \in 1..Len(stack) : stack'[i] = stack[i]
          /\ calls' = calls
          /\ pc' = pc + 1]_vars

\* A push of the empty byte string on a non-empty stack.
C16_Witness ==
    /\ script = <<PushBytes(<<2>>), PushBytes(<<>>)>>
    /\ pc = 3
    /\ state = "Running"
    /\ stack = <<<<2>>, <<>>>>

\* The number of PushBytes instructions the script starts with, and the
\* stack they build.
NumPushes ==
    CHOOSE k \in 0..Len(script) :
        /\ \A i \in 1..k : script[i].type = "PushBytes"
        /\ k = Len(script) \/ script[k + 1].type # "PushBytes"

Pushed == [i \in 1..NumPushes |-> script[i].data]

\* What an opcode bound to the single handler f does from the stack st:
\* the outcome of the run and the stack left.
Outcome(f, st) ==
    LET r == Call(f, st)
    IN IF r.tag = "Ok"
       THEN [state |-> "Running", kind |-> "None",
             stack |-> IF Len(r.val) > 0 THEN Append(r.stack, r.val) ELSE r.stack]
       ELSE [state |-> "Failure", kind |-> r.kind, stack |-> r.stack]

\* An Equal opcode followed at once by a Verify opcode, from the stack st.
EqualThenVerify(st) ==
    LET e == Outcome("op_equal", st)
    IN IF e.state = "Failure" THEN e ELSE Outcome("op_verify", e.stack)

Result == [state |-> state, kind |-> kind, stack |-> stack]

\* C17: from the stack built by the script's leading pushes, the
\* composite opcode bound to [op_equal, op_verify] and the two opcodes
\* EQUAL, VERIFY each end with the outcome and the stack of Equal followed
\* at once by Verify, and so with the same outcome and stack as each
\* other.
C17_CompositeIsSequence ==
    LET k == NumPushes
    IN /\ (/\ words = CodeWords
           /\ k < Len(script)
           /\ script[k + 1] = Op(OP_EQUALVERIFY)
           /\ \/ state = "Failure" /\ pc = k + 1
              \/ state = "Running" /\ pc = k + 2 /\ hc = 0)
          => Result = EqualThenVerify(Pushed)
       /\ (/\ words = PrimitiveWords
           /\ k + 1 < Len(script)
           /\ script[k + 1] = Op(OP_EQUAL)
           /\ script[k + 2] = Op(OP_VERIFY)
           /\ \/ state = "Failure" /\ pc \in {k + 1, k + 2}
              \/ state = "Running" /\ pc = k + 3 /\ hc = 0)
          => Result = EqualThenVerify(Pushed)

\* The composite opcode has run both handlers on equal values, with an
\* element below them.
C17_Witness ==
    /\ script = <<PushBytes(<<2>>), PushBytes(<<1>>), PushBytes(<<1>>), Op(OP_EQUALVERIFY)>>
    /\ words = CodeWords
    /\ state = "Running"
    /\ pc = 5
    /\ calls = <<<<4, "op_equal">>, <<4, "op_verify">>>>
    /\ stack = <<<<2>>>>

\* EQUAL then VERIFY as two opcodes on the same values.
C17_WitnessSplit ==
    /\ script = <<PushBytes(<<2>>), PushBytes(<<1>>), PushBytes(<<1>>), Op(OP_EQUAL), Op(OP_VERIFY)>>
    /\ words = PrimitiveWords
    /\ state = "Running"
    /\ pc = 6
    /\ calls = <<<<4, "op_equal">>, <<5, "op_verify">>>>
    /\ stack = <<<<2>>>>

\* The composite opcode failing in Verify on unequal values.
C17_WitnessFailed ==
    /\ script = <<PushBytes(<<2>>), PushBytes(<<0>>), PushBytes(<<1>>), Op(OP_EQUALVERIFY)>>
    /\ words = CodeWords
    /\ state = "Failure"
    /\ kind = "VerifyFailed"
    /\ stack = <<<<2>>>>

\* C18: no step of a run changes the registry: it stays the registry the
\* run began with.
C18_RegistryReadOnly ==
    /\ [](words \in Registries)
    /\ [][words' = words /\ script' = script]_vars

\* A run that has pushed data, called a handler and missed a lookup.
C18_Witness ==
    /\ script = <<PushBytes(<<2>>), Op(OP_DUP), Op(OP_EQUAL)>>
    /\ state = "Failure"
    /\ kind = "UnsupportedOpcode"
    /\ calls = <<<<2, "op_dup">>>>
    /\ words = CodeWords

\* The calls made so far are those of the chains of the Op instructions
\* reached, instruction by instruction, each chain from its first handler
\* on without a gap or a repeat.
CallsInOrder ==
    /\ \A i \in DOMAIN calls : \A j \in DOMAIN calls :
           i < j => calls[i][1] <= calls[j][1]
    /\ \A i \in DOMAIN calls :
           LET p == calls[i][1]
               n == Cardinality({j \in 1..i : calls[j][1] = p})
           IN /\ p <= pc /\ p <= Len(script)
              /\ script[p].type = "Op"
              /\ script[p].op \in DOMAIN words
              /\ n <= Len(words[script[p].op])
              /\ calls[i][2] = words[script[p].op][n]

\* C19: every run reaches a halted state; the position in the script
\* only moves forward, one instruction at a time, and never past the end;
\* each handler of a chain is called at most once per instruction, in
\* chain order.
C19_Terminates ==
    /\ <>(state # "Running")
    /\ [](CallsInOrder /\ pc <= Len(script) + 1)
    /\ [][/\ pc' \in {pc, pc + 1}
          /\ state = "Running"
          /\ state' = "Running" =>
                \/ pc' = pc + 1 /\ hc' = 0
                \/ pc' = pc /\ hc' = hc + 1 /\ hc' < Len(words[script[pc].op])]_vars

\* A halted run that went through a two-handler chain and more.
C19_Witness ==
    /\ script = P2PKH(<<2>>, <<0>>, hash160(<<0>>))
    /\ words = CodeWords
    /\ state = "Success"
    /\ Len(calls) = 5
    /\ pc = 8

====
